---- MODULE Spec2Model ----
(***************************************************************************)
(* The calibration engine of backend/app/calibration.py over a relational  *)
(* store.                                                                  *)
(*                                                                         *)
(* Number representation.  Python floats are kept as integers:             *)
(*   - latitudes, longitudes and degree offsets are in micro-degrees;      *)
(*   - drone_area_hectares is in units of 1/10000 ha (square metres);      *)
(*   - rates and densities are whole units, a quotient being truncated;    *)
(*   - a datetime is a count of half-days, so that .date() is a real       *)
(*     truncation (two datetimes of one calendar day differ).              *)
(* NULL / None is the empty tuple <<>>, a present value v is <<v>>.        *)
(***************************************************************************)
EXTENDS Integers, Sequences, FiniteSets, TLC

VARIABLES
    Survey,             \* table: id -> [type, date]
    MediaAsset,         \* table: id -> [survey_id, aru_id, lat_tl, lat_br, lon_tl, lon_br]
    ARU,                \* table: id -> [lat, lon]
    AcousticDetection,  \* table: id -> [asset_id, class_name, end_time]
    VisualDetection,    \* table: id -> [asset_id]
    CalibrationWindow,  \* table, committed rows: a set of window records with an id
    nextId,             \* the next primary key of CalibrationWindow
    sess,               \* per session: the position and locals of its rebuild call
    ret,                \* per session: what its last rebuild call returned
    hist,               \* the rebuild calls that returned, oldest first
    calls,              \* number of rebuild calls started
    call                \* the reader call in progress or last returned

source == <<Survey, MediaAsset, ARU, AcousticDetection, VisualDetection>>
vars == <<Survey, MediaAsset, ARU, AcousticDetection, VisualDetection,
          CalibrationWindow, nextId, sess, ret, hist, calls, call>>

None == <<>>
Some(v) == <<v>>
Val(o) == o[1]

Max(a, b) == IF a >= b THEN a ELSE b
Min(a, b) == IF a <= b THEN a ELSE b
Abs(a) == IF a >= 0 THEN a ELSE 0 - a
SetMin(S) == CHOOSE x \in S : \A y \in S : x <= y
SetMax(S) == CHOOSE x \in S : \A y \in S : x >= y

RECURSIVE SortedSeq(_)
\* The elements of a finite set of integers in ascending order (the order in
\* which the store returns rows: by primary key).
SortedSeq(S) ==
    IF S = {} THEN <<>> ELSE <<SetMin(S)>> \o SortedSeq(S \ {SetMin(S)})

(***************************************************************************)
(* Bounds of the model.                                                    *)
(***************************************************************************)
\* How many rebuild calls may be started in one behaviour.
MaxRebuildCalls == 2

Sessions == {1, 2}

(***************************************************************************)
(* Geo utilities                                                           *)
(***************************************************************************)
\* cos(radians(lat)) in hundredths, lat in micro-degrees; a table over the
\* latitudes of the model (cos 10 deg = 0.985, cos 85 deg = 0.087).
cos_radians(lat) ==
    CASE lat \div 1000000 = 10 -> 98
      [] lat \div 1000000 = 85 -> 8

\* meters / 111_320.0, in micro-degrees
_meters_to_lat_degrees(meters) == (meters * 1000000) \div 111320

\* scale = 111_320.0 * max(0.1, cos(radians(lat))); meters / scale
_meters_to_lon_degrees(meters, lat) ==
    LET scale == (111320 * Max(10, cos_radians(lat))) \div 100
    IN  (meters * 1000000) \div scale

\* The union bounding box of the survey's assets that have all four corners.
_survey_bounds(survey_id) ==
    LET assets == {a \in DOMAIN MediaAsset : MediaAsset[a].survey_id = survey_id}
        full == {a \in assets :
                    /\ MediaAsset[a].lat_tl # None /\ MediaAsset[a].lat_br # None
                    /\ MediaAsset[a].lon_tl # None /\ MediaAsset[a].lon_br # None}
        lats == {Val(MediaAsset[a].lat_tl) : a \in full}
                    \cup {Val(MediaAsset[a].lat_br) : a \in full}
        lons == {Val(MediaAsset[a].lon_tl) : a \in full}
                    \cup {Val(MediaAsset[a].lon_br) : a \in full}
    IN  IF assets = {} THEN None
        ELSE IF lats = {} \/ lons = {} THEN None
        ELSE Some([min_lat |-> SetMin(lats), max_lat |-> SetMax(lats),
                   min_lon |-> SetMin(lons), max_lon |-> SetMax(lons)])

\* A containment test with the longitude comparison left out.
point_in_latitude_band(lat, lon, bounds, buffer_meters) ==
    LET d_lat == _meters_to_lat_degrees(buffer_meters)
    IN  /\ bounds.min_lat - d_lat <= lat
        /\ lat <= bounds.max_lat + d_lat

_point_in_bounds_with_buffer(lat, lon, bounds, buffer_meters) ==
    LET d_lat == _meters_to_lat_degrees(buffer_meters)
        d_lon == _meters_to_lon_degrees(buffer_meters, lat)
    IN  /\ bounds.min_lat - d_lat <= lat
        /\ lat <= bounds.max_lat + d_lat
        /\ bounds.min_lon - d_lon <= lon
        /\ lon <= bounds.max_lon + d_lon

\* Planar area; the result is in 1/10000 ha, i.e. area_m2 itself.
_compute_area_hectares(bounds) ==
    LET lat_span == Max(0, bounds.max_lat - bounds.min_lat)
        lon_span == Max(0, bounds.max_lon - bounds.min_lon)
        mean_lat == (bounds.max_lat + bounds.min_lat) \div 2
        meters_per_deg_lat == 111320
        meters_per_deg_lon == (111320 * Max(10, cos_radians(mean_lat))) \div 100
        lat_m == (lat_span * meters_per_deg_lat) \div 1000000
        lon_m == (lon_span * meters_per_deg_lon) \div 1000000
    IN  lat_m * lon_m

(***************************************************************************)
(* Metrics computer                                                        *)
(***************************************************************************)
_acoustic_metrics(acoustic_survey_id, aru_id) ==
    LET mine == {a \in DOMAIN MediaAsset :
                    /\ MediaAsset[a].survey_id = acoustic_survey_id
                    /\ MediaAsset[a].aru_id = Some(aru_id)}
        asset_count == Cardinality(mine)
        call_count == Cardinality({d \in DOMAIN AcousticDetection :
                                      AcousticDetection[d].asset_id \in mine})
        calls_per_asset == IF asset_count # 0 THEN call_count \div asset_count ELSE 0
    IN  [acoustic_call_count |-> call_count,
         acoustic_asset_count |-> asset_count,
         acoustic_calls_per_asset |-> calls_per_asset]

_drone_metrics(visual_survey_id) ==
    LET det_count == Cardinality({d \in DOMAIN VisualDetection :
                        MediaAsset[VisualDetection[d].asset_id].survey_id = visual_survey_id})
        bounds == _survey_bounds(visual_survey_id)
    IN  IF bounds = None
        THEN [drone_detection_count |-> det_count,
              drone_area_hectares |-> 0,
              drone_density_per_hectare |-> 0]
        ELSE LET area_ha == _compute_area_hectares(Val(bounds))
                 density == IF area_ha > 0 THEN (det_count * 10000) \div area_ha ELSE 0
             IN  [drone_detection_count |-> det_count,
                  drone_area_hectares |-> area_ha,
                  drone_density_per_hectare |-> density]

(***************************************************************************)
(* Window builder: the loops of rebuild_calibration_windows                *)
(***************************************************************************)
\* datetime.date(): the calendar day of a datetime counted in half-days
date_of(dt) == dt \div 2

\* abs((drone.date.date() - acoustic.date.date()).days)
days_apart_of(drone_dt, acoustic_dt) == Abs(date_of(drone_dt) - date_of(acoustic_dt))

\* What the body of the drone loop does with one (acoustic, ARU, drone)
\* candidate, in the order of its checks.
candidate_outcome(acoustic, aru_id, drone, p) ==
    IF Survey[drone].date = None \/ Survey[acoustic].date = None THEN "no_date"
    ELSE IF days_apart_of(Val(Survey[drone].date), Val(Survey[acoustic].date))
                > p.max_days_apart THEN "too_far"
    ELSE IF _survey_bounds(drone) = None THEN "no_bounds"
    ELSE IF ~ _point_in_bounds_with_buffer(ARU[aru_id].lat, ARU[aru_id].lon,
                    Val(_survey_bounds(drone)), p.buffer_meters) THEN "outside"
    ELSE IF _drone_metrics(drone).drone_area_hectares <= 0 THEN "no_area"
    ELSE "window"

\* A drone loop that also counts the time and space mismatches.
skipped_increment_every_reject(outcome) ==
    IF outcome = "window" THEN 0 ELSE 1

\* The outcomes on which the drone loop executes skipped += 1.
skipped_increment(outcome) ==
    IF outcome \in {"no_date", "no_bounds", "no_area"} THEN 1 ELSE 0

\* The CalibrationWindow row of a candidate (the id is given by the store).
window_row(acoustic, aru_id, drone, p) ==
    LET acoustic_m == _acoustic_metrics(acoustic, aru_id)
        drone_m == _drone_metrics(drone)
    IN  [acoustic_survey_id |-> acoustic,
         visual_survey_id |-> drone,
         aru_id |-> aru_id,
         days_apart |-> days_apart_of(Val(Survey[drone].date), Val(Survey[acoustic].date)),
         buffer_meters |-> p.buffer_meters,
         acoustic_call_count |-> acoustic_m.acoustic_call_count,
         acoustic_asset_count |-> acoustic_m.acoustic_asset_count,
         acoustic_calls_per_asset |-> acoustic_m.acoustic_calls_per_asset,
         drone_detection_count |-> drone_m.drone_detection_count,
         drone_area_hectares |-> drone_m.drone_area_hectares,
         drone_density_per_hectare |-> drone_m.drone_density_per_hectare]

RECURSIVE drone_loop(_, _, _, _, _)
\* for drone in drone_surveys: ...
drone_loop(acoustic, aru_id, drones, p, acc) ==
    IF drones = <<>> THEN acc
    ELSE LET outcome == candidate_outcome(acoustic, aru_id, Head(drones), p)
             next == IF outcome = "window"
                     THEN [rows |-> Append(acc.rows,
                                      window_row(acoustic, aru_id, Head(drones), p)),
                           created |-> acc.created + 1,
                           skipped |-> acc.skipped]
                     ELSE [acc EXCEPT !.skipped = @ + skipped_increment(outcome)]
         IN  drone_loop(acoustic, aru_id, Tail(drones), p, next)

RECURSIVE aru_loop(_, _, _, _, _)
\* for aru_id in [a for a in aru_ids if a is not None]: ...
aru_loop(acoustic, aru_ids, drones, p, acc) ==
    IF aru_ids = <<>> THEN acc
    ELSE LET aru_id == Head(aru_ids)
             next ==
                IF aru_id \notin DOMAIN ARU
                THEN [acc EXCEPT !.skipped = @ + 1]
                ELSE IF _acoustic_metrics(acoustic, aru_id).acoustic_call_count
                            < p.min_acoustic_calls
                THEN [acc EXCEPT !.skipped = @ + 1]
                ELSE drone_loop(acoustic, aru_id, drones, p, acc)
         IN  aru_loop(acoustic, Tail(aru_ids), drones, p, next)

\* select distinct aru_id of the survey's assets where aru_id is not null
distinct_aru_ids(acoustic) ==
    SortedSeq({Val(MediaAsset[a].aru_id) :
                  a \in {b \in DOMAIN MediaAsset :
                            /\ MediaAsset[b].survey_id = acoustic
                            /\ MediaAsset[b].aru_id # None}})

RECURSIVE acoustic_loop(_, _, _, _)
\* for acoustic in acoustic_surveys: ...
acoustic_loop(acoustics, drones, p, acc) ==
    IF acoustics = <<>> THEN acc
    ELSE acoustic_loop(Tail(acoustics), drones, p,
            aru_loop(Head(acoustics), distinct_aru_ids(Head(acoustics)), drones, p, acc))

surveys_of_type(t) == SortedSeq({s \in DOMAIN Survey : Survey[s].type = t})

\* Lines 137-203: the rows added to the session, created and skipped.
rebuild_enumerate(p) ==
    acoustic_loop(surveys_of_type("acoustic"), surveys_of_type("drone"), p,
                  [rows |-> <<>>, created |-> 0, skipped |-> 0])

(***************************************************************************)
(* The store and its sessions                                              *)
(*                                                                         *)
(* A session's writes are its own until it commits: session.exec(delete)   *)
(* and session.add(row) change nothing another session reads, and          *)
(* session.commit() publishes them at once.  A call that raises leaves     *)
(* its uncommitted writes behind, and they are never committed.            *)
(***************************************************************************)
\* A delete statement that removes no row.
delete_nothing(table) == {}

\* The session holds writes it has not committed: an executed DELETE, or
\* added rows.
holds_writes(s) ==
    \/ sess[s].pc = "deleted"
    \/ sess[s].pc = "commit" /\ sess[s].rows # <<>>

\* A write statement of session s can go ahead: no other session holds
\* uncommitted writes to the table.  (A store with one writer at a time makes
\* the statement wait or fail otherwise; every schedule that remains is also a
\* schedule of a store that lets writers overlap.)
can_write(s) == \A t \in Sessions \ {s} : ~ holds_writes(t)

\* delete(CalibrationWindow): the rows the statement removes, all of them.
delete_statement(table) == table

\* The rows of a commit, with the primary keys the store gives them.
insert_rows(rows, first_id) ==
    {[id |-> first_id + i - 1] @@ rows[i] : i \in 1..Len(rows)}

idle_session ==
    [pc |-> "idle", p |-> None, deleted |-> {}, rows |-> <<>>,
     created |-> 0, skipped |-> 0, before |-> {}, overlap |-> FALSE]

no_return ==
    [status |-> "none", created_windows |-> 0, skipped_candidates |-> 0, p |-> None]

\* line 134: session.exec(delete(CalibrationWindow)), first statement of the call
RebuildDelete(s, p) ==
    /\ calls < MaxRebuildCalls
    /\ sess[s].pc = "idle"
    /\ can_write(s)
    /\ sess' = [t \in Sessions |->
                    IF t = s
                    THEN [pc |-> "deleted", p |-> Some(p),
                          deleted |-> delete_statement(CalibrationWindow),
                          rows |-> <<>>, created |-> 0, skipped |-> 0,
                          before |-> CalibrationWindow,
                          overlap |-> \E o \in Sessions : sess[o].pc # "idle"]
                    ELSE [sess[t] EXCEPT !.overlap = (sess[t].pc # "idle")]]
    /\ calls' = calls + 1
    /\ UNCHANGED <<source, CalibrationWindow, nextId, ret, hist, call>>

\* line 135: session.commit() publishes the delete
RebuildCommitDelete(s) ==
    /\ sess[s].pc = "deleted"
    /\ CalibrationWindow' = CalibrationWindow \ sess[s].deleted
    /\ sess' = [sess EXCEPT ![s].pc = "loop", ![s].deleted = {}]
    /\ UNCHANGED <<source, nextId, ret, hist, calls, call>>

\* lines 137-203: the enumeration; each row is session.add()ed, not committed
RebuildLoop(s) ==
    /\ sess[s].pc = "loop"
    /\ LET r == rebuild_enumerate(Val(sess[s].p))
       IN  /\ r.rows # <<>> => can_write(s)
           /\ sess' = [sess EXCEPT ![s].pc = "commit", ![s].rows = r.rows,
                                ![s].created = r.created, ![s].skipped = r.skipped]
    /\ UNCHANGED <<source, CalibrationWindow, nextId, ret, hist, calls, call>>

\* lines 205-213: session.commit() publishes the added rows; the call returns
RebuildCommit(s) ==
    /\ sess[s].pc = "commit"
    /\ CalibrationWindow' = CalibrationWindow \cup insert_rows(sess[s].rows, nextId)
    /\ nextId' = nextId + Len(sess[s].rows)
    /\ ret' = [ret EXCEPT ![s] =
                  [status |-> "ok", created_windows |-> sess[s].created,
                   skipped_candidates |-> sess[s].skipped, p |-> sess[s].p]]
    /\ hist' = Append(hist,
                  [session |-> s, p |-> Val(sess[s].p),
                   created_windows |-> sess[s].created,
                   skipped_candidates |-> sess[s].skipped,
                   before |-> sess[s].before, overlapped |-> sess[s].overlap,
                   table |-> CalibrationWindow'])
    /\ sess' = [sess EXCEPT ![s] = idle_session]
    /\ UNCHANGED <<source, calls, call>>

\* A store error or exception at any statement of the call (lines 134-205):
\* the call raises, its uncommitted writes are dropped.
RebuildRaise(s) ==
    /\ sess[s].pc \in {"deleted", "loop", "commit"}
    /\ ret' = [ret EXCEPT ![s] =
                  [status |-> "raised", created_windows |-> 0,
                   skipped_candidates |-> 0, p |-> sess[s].p]]
    /\ hist' = Append(hist,
                  [session |-> s, p |-> Val(sess[s].p),
                   created_windows |-> 0 - 1, skipped_candidates |-> 0 - 1,
                   before |-> sess[s].before, overlapped |-> sess[s].overlap,
                   table |-> CalibrationWindow])
    /\ sess' = [sess EXCEPT ![s] = idle_session]
    /\ UNCHANGED <<source, CalibrationWindow, nextId, calls, call>>

(***************************************************************************)
(* Readers                                                                 *)
(***************************************************************************)
RECURSIVE order_by_days_apart_id_desc(_)
\* .order_by(CalibrationWindow.days_apart.asc(), CalibrationWindow.id.desc())
order_by_days_apart_id_desc(rows) ==
    IF rows = {} THEN <<>>
    ELSE LET first == CHOOSE w \in rows : \A v \in rows :
                          \/ w.days_apart < v.days_apart
                          \/ w.days_apart = v.days_apart /\ w.id >= v.id
         IN  <<first>> \o order_by_days_apart_id_desc(rows \ {first})

\* select(CalibrationWindow).where(acoustic_call_count >= min_calls)
select_windows(table, min_calls) == {w \in table : w.acoustic_call_count >= min_calls}

list_calibration_windows(table, min_calls, limit) ==
    LET ordered == order_by_days_apart_id_desc(select_windows(table, min_calls))
    IN  SubSeq(ordered, 1, Min(limit, Len(ordered)))

\* The rebuild calls in progress while a reader reads: the sessions, and for
\* each what it found in the table when it began and its parameters.
in_progress ==
    [s \in {t \in Sessions : sess[t].pc # "idle"} |->
        [before |-> sess[s].before, p |-> Val(sess[s].p), overlap |-> sess[s].overlap]]

\* No reader call is running: a reader call starts when the result of the
\* previous one has been returned to its caller.
no_call == [kind |-> "none"]

\* list_calibration_windows: one SELECT, lines 221-248
ListWindows(min_calls, limit) ==
    /\ call = no_call
    /\ call' = [kind |-> "list", pc |-> "done",
                min_calls |-> min_calls, limit |-> limit,
                data |-> list_calibration_windows(CalibrationWindow, min_calls, limit),
                during |-> in_progress]
    /\ UNCHANGED <<source, CalibrationWindow, nextId, sess, ret, hist, calls>>

(***************************************************************************)
(* Feature builder                                                         *)
(***************************************************************************)
RECURSIVE SeqSum(_)
SeqSum(q) == IF q = <<>> THEN 0 ELSE Head(q) + SeqSum(Tail(q))

RECURSIVE IsqrtBetween(_, _, _)
\* The largest r in lo..hi with r * r <= v, by bisection.
IsqrtBetween(lo, hi, v) ==
    IF lo >= hi THEN lo
    ELSE LET mid == (lo + hi + 1) \div 2
         IN  IF mid * mid <= v THEN IsqrtBetween(mid, hi, v)
             ELSE IsqrtBetween(lo, mid - 1, v)

\* The square root of v, truncated.
Isqrt(v) == IsqrtBetween(0, Min(v, 46340), v)

\* re.sub(r"[^a-zA-Z0-9]+", "_", name.strip().lower()).strip("_") wrapped as
\* sp_<slug>_calls_per_hour, on the class names of the model.
_safe_feature_name(name) ==
    CASE name = "Asian Openbill" -> "sp_asian_openbill_calls_per_hour"
      [] name = "asian-openbill" -> "sp_asian_openbill_calls_per_hour"
      [] name = "Painted Stork"  -> "sp_painted_stork_calls_per_hour"

\* The order in which GROUP BY class_name returns the class names.
class_names == <<"Asian Openbill", "Painted Stork", "asian-openbill">>

assets_of(acoustic_survey_id, aru_id) ==
    {a \in DOMAIN MediaAsset :
        /\ MediaAsset[a].survey_id = acoustic_survey_id
        /\ MediaAsset[a].aru_id = Some(aru_id)}

\* Effort in seconds (hours * 3600): per asset the largest detection end
\* time, or 300 s when there is none.
_window_effort_hours(acoustic_survey_id, aru_id) ==
    LET assets == SortedSeq(assets_of(acoustic_survey_id, aru_id))
        ends(a) == {AcousticDetection[d].end_time :
                        d \in {e \in DOMAIN AcousticDetection :
                                  AcousticDetection[e].asset_id = a}}
        max_end(a) == IF ends(a) = {} THEN None ELSE Some(SetMax(ends(a)))
        seconds(a) == IF max_end(a) = None \/ max_end(a) = Some(0)
                      THEN 300 ELSE Val(max_end(a))
    IN  IF assets = <<>> THEN 0
        ELSE Max(0, SeqSum([i \in 1..Len(assets) |-> seconds(assets[i])]))

\* The (class_name, count) rows of the pair, in GROUP BY order.
_window_species_counts(acoustic_survey_id, aru_id) ==
    LET n(name) == Cardinality({d \in DOMAIN AcousticDetection :
                      /\ AcousticDetection[d].asset_id
                            \in assets_of(acoustic_survey_id, aru_id)
                      /\ AcousticDetection[d].class_name = name})
    IN  SelectSeq([i \in 1..Len(class_names) |->
                      [name |-> class_names[i], count |-> n(class_names[i])]],
                  LAMBDA e : e.count > 0)

\* dict.get(name, 0) on the rows of _window_species_counts
count_of(counts, name) ==
    IF \E i \in 1..Len(counts) : counts[i].name = name
    THEN counts[CHOOSE i \in 1..Len(counts) : counts[i].name = name].count
    ELSE 0

RECURSIVE agg_species(_, _)
\* agg[sp] = agg.get(sp, 0) + c, the dict keeping its insertion order
agg_species(agg, counts) ==
    IF counts = <<>> THEN agg
    ELSE LET e == Head(counts)
             at == {i \in 1..Len(agg) : agg[i].name = e.name}
         IN  agg_species(
                IF at = {} THEN Append(agg, e)
                ELSE [agg EXCEPT ![CHOOSE i \in at : TRUE].count = @ + e.count],
                Tail(counts))

RECURSIVE agg_windows(_, _)
agg_windows(agg, windows) ==
    IF windows = <<>> THEN agg
    ELSE agg_windows(
            agg_species(agg, _window_species_counts(Head(windows).acoustic_survey_id,
                                                    Head(windows).aru_id)),
            Tail(windows))

RECURSIVE ranked_desc(_)
\* sorted(agg.items(), key=count, reverse=True): stable, so equal counts keep
\* their insertion order
ranked_desc(agg) ==
    IF agg = <<>> THEN <<>>
    ELSE LET top == SetMax({agg[i].count : i \in 1..Len(agg)})
             k == SetMin({i \in 1..Len(agg) : agg[i].count = top})
         IN  <<agg[k]>> \o ranked_desc(SubSeq(agg, 1, k - 1)
                                          \o SubSeq(agg, k + 1, Len(agg)))

_top_species_for_windows(windows, top_species) ==
    LET ranked == ranked_desc(agg_windows(<<>>, windows))
    IN  [i \in 1..Min(top_species, Len(ranked)) |-> ranked[i].name]

\* The rows of a SELECT on CalibrationWindow without ORDER BY: by primary key.
rows_by_id(table) ==
    LET ids == SortedSeq({w.id : w \in table})
    IN  [i \in 1..Len(ids) |-> CHOOSE w \in table : w.id = ids[i]]

\* The feature dict of one window or target: the two total rates, then one
\* rate per selected species under its feature name (a later species with
\* the same feature name overwrites an earlier one).
feature_dict(calls_per_hour, calls_per_asset, species, sp_counts, effort_h) ==
    LET names == [i \in 1..Len(species) |-> _safe_feature_name(species[i])]
        last(f) == SetMax({i \in 1..Len(species) : names[i] = f})
    IN  [f \in {"calls_per_hour", "calls_per_asset"}
                  \cup {names[i] : i \in 1..Len(species)} |->
            IF f = "calls_per_hour" THEN calls_per_hour
            ELSE IF f = "calls_per_asset" THEN calls_per_asset
            ELSE (count_of(sp_counts, species[last(f)]) * 3600) \div effort_h]

feature_row(w, species) ==
    LET measured == _window_effort_hours(w.acoustic_survey_id, w.aru_id)
        effort_h == IF measured <= 0
                    THEN Max(300, w.acoustic_asset_count * 300)
                    ELSE measured
        sp_counts == _window_species_counts(w.acoustic_survey_id, w.aru_id)
    IN  [window_id |-> w.id,
         acoustic_survey_id |-> w.acoustic_survey_id,
         visual_survey_id |-> w.visual_survey_id,
         aru_id |-> w.aru_id,
         days_apart |-> w.days_apart,
         target_density_per_hectare |-> w.drone_density_per_hectare,
         effort_hours_estimated |-> effort_h,
         features |-> feature_dict((w.acoustic_call_count * 3600) \div effort_h,
                                   w.acoustic_calls_per_asset,
                                   species, sp_counts, effort_h)]

build_calibration_feature_rows(table, min_calls, top_species) ==
    LET windows == rows_by_id(select_windows(table, min_calls))
        species == _top_species_for_windows(windows, top_species)
        species_feature_names ==
            [i \in 1..Len(species) |-> _safe_feature_name(species[i])]
    IN  IF windows = <<>>
        THEN [rows |-> <<>>, feature_names |-> <<>>, species_features |-> <<>>]
        ELSE [rows |-> [i \in 1..Len(windows) |-> feature_row(windows[i], species)],
              feature_names |-> <<"calls_per_hour", "calls_per_asset">>
                                    \o species_feature_names,
              species_features |-> species]

(***************************************************************************)
(* Model trainer.  np.linalg.lstsq is a search for the least sum of        *)
(* squared residuals over a grid of integer coefficients; among the        *)
(* minimisers the one of least norm, as lstsq gives.                       *)
(***************************************************************************)
InterceptValues == 0 - 2 .. 4
CoefValues == 0 - 1 .. 1

\* r["features"].get(name, 0.0) for name in feature_names
feature_vector(features, feature_names) ==
    [j \in 1..Len(feature_names) |->
        IF feature_names[j] \in DOMAIN features THEN features[feature_names[j]] ELSE 0]

_matrix_from_rows(rows, feature_names) ==
    [X |-> [i \in 1..Len(rows) |-> feature_vector(rows[i].features, feature_names)],
     y |-> [i \in 1..Len(rows) |-> rows[i].target_density_per_hectare]]

\* X.size == 0: no row, or rows of no column
is_empty(X) == X = <<>> \/ X[1] = <<>>

dot(x, coef) == SeqSum([j \in 1..Len(x) |-> x[j] * coef[j]])

_predict_linear(model, X) ==
    IF is_empty(X) THEN <<>>
    ELSE [i \in 1..Len(X) |-> model.intercept + dot(X[i], model.coef)]

_predict_quadratic_total_call(model, X) ==
    IF is_empty(X) THEN <<>>
    ELSE [i \in 1..Len(X) |->
            model.a0 + model.a1 * X[i][1] + model.a2 * (X[i][1] * X[i][1])]

sum_sq_err(y_pred, y_true) ==
    SeqSum([i \in 1..Len(y_true) |-> (y_pred[i] - y_true[i]) * (y_pred[i] - y_true[i])])

\* The candidate of least cost, and of least norm among those: costs and
\* norms are functions on the candidates.
least(costs, norms) ==
    LET c_min == SetMin({costs[m] : m \in DOMAIN costs})
        best == {m \in DOMAIN costs : costs[m] = c_min}
        n_min == SetMin({norms[m] : m \in best})
    IN  CHOOSE m \in best : norms[m] = n_min

_fit_linear_model(X, y) ==
    IF is_empty(X) THEN [intercept |-> 0, coef |-> <<>>]
    ELSE LET cands == [intercept : InterceptValues,
                       coef : [1..Len(X[1]) -> CoefValues]]
         IN  least([m \in cands |-> sum_sq_err(_predict_linear(m, X), y)],
                   [m \in cands |-> m.intercept * m.intercept + dot(m.coef, m.coef)])

_fit_quadratic_total_call_model(X, y) ==
    IF is_empty(X) THEN [a0 |-> 0, a1 |-> 0, a2 |-> 0]
    ELSE LET cands == [a0 : InterceptValues, a1 : CoefValues, a2 : CoefValues]
         IN  least([m \in cands |->
                       sum_sq_err(_predict_quadratic_total_call(m, X), y)],
                   [m \in cands |-> m.a0 * m.a0 + m.a1 * m.a1 + m.a2 * m.a2])

\* rmse and mae in hundredths, r2 in hundredths
_metrics(y_true, y_pred) ==
    IF y_true = <<>> THEN [rmse |-> 0, mae |-> 0, r2 |-> 0]
    ELSE LET n == Len(y_true)
             sse == sum_sq_err(y_pred, y_true)
             sae == SeqSum([i \in 1..n |-> Abs(y_pred[i] - y_true[i])])
             sum_y == SeqSum(y_true)
             \* n * sum((y - mean(y)) ** 2)
             n_denom == n * SeqSum([i \in 1..n |-> y_true[i] * y_true[i]])
                            - sum_y * sum_y
         IN  [rmse |-> Isqrt((sse * 10000) \div n),
              mae |-> (sae * 100) \div n,
              r2 |-> IF n_denom > 0 THEN 100 - (sse * n * 100) \div n_denom ELSE 0]

\* float(np.std(residuals)) if residuals.size > 1 else 0.0, in hundredths
residual_std(residuals) ==
    LET n == Len(residuals)
        sum_r == SeqSum(residuals)
        sum_sq == SeqSum([i \in 1..n |-> residuals[i] * residuals[i]])
    IN  IF n > 1 THEN Isqrt(((n * sum_sq - sum_r * sum_r) * 10000) \div (n * n))
        ELSE 0

residuals_of(y_pred, y) == [i \in 1..Len(y) |-> y_pred[i] - y[i]]

\* line 560: the recommendation of calibration_train_summary
recommended_model_train(quad_metrics, linear_metrics) ==
    IF quad_metrics.rmse < linear_metrics.rmse THEN "quadratic" ELSE "linear"

\* lines 544-575: the summary, of the data that line 543 has built
train_summary_of(data) ==
    LET m == _matrix_from_rows(data.rows, data.feature_names)
        linear_model == _fit_linear_model(m.X, m.y)
        quad_model == _fit_quadratic_total_call_model(m.X, m.y)
        yhat_linear == _predict_linear(linear_model, m.X)
        yhat_quad == _predict_quadratic_total_call(quad_model, m.X)
        linear_metrics == _metrics(m.y, yhat_linear)
        quad_metrics == _metrics(m.y, yhat_quad)
        recommended_model == recommended_model_train(quad_metrics, linear_metrics)
        residuals == IF recommended_model = "linear"
                     THEN residuals_of(yhat_linear, m.y)
                     ELSE residuals_of(yhat_quad, m.y)
    IN  IF data.rows = <<>>
        THEN [window_count |-> 0, message |-> "No windows available for training."]
        ELSE [window_count |-> Len(data.rows),
              feature_names |-> data.feature_names,
              species_features |-> data.species_features,
              linear_model |-> linear_model,
              quadratic_model |-> quad_model,
              linear_metrics_train |-> linear_metrics,
              quadratic_metrics_train |-> quad_metrics,
              recommended_model |-> recommended_model,
              residual_std_density_per_hectare |-> residual_std(residuals)]

\* lines 543-575, on the table the call reads
calibration_train_summary(table, min_calls, top_species) ==
    train_summary_of(build_calibration_feature_rows(table, min_calls, top_species))

(***************************************************************************)
(* Curve summary                                                           *)
(***************************************************************************)
\* sorted(q): the values of q in ascending order
RECURSIVE sorted(_)
sorted(q) ==
    IF q = <<>> THEN <<>>
    ELSE LET i == CHOOSE j \in 1..Len(q) : \A k \in 1..Len(q) : q[j] <= q[k]
         IN  <<q[i]>> \o sorted([k \in 1..(Len(q) - 1) |-> IF k < i THEN q[k] ELSE q[k + 1]])

\* statistics.median of a non-empty list
median(q) ==
    LET o == sorted(q)
        n == Len(q)
    IN  IF n % 2 = 1 THEN o[(n + 1) \div 2] ELSE (o[n \div 2] + o[n \div 2 + 1]) \div 2

\* lines 251-287; the ratios y / x and their median are in hundredths
calibration_curve_summary(table, min_calls) ==
    LET rows == rows_by_id(select_windows(table, min_calls))
        usable == SelectSeq(rows, LAMBDA r : r.acoustic_calls_per_asset > 0
                                             /\ r.drone_density_per_hectare >= 0)
        ratios == [i \in 1..Len(usable) |->
                     (usable[i].drone_density_per_hectare * 100)
                         \div usable[i].acoustic_calls_per_asset]
        pairs == [i \in 1..Len(usable) |->
                     [x_calls_per_asset |-> usable[i].acoustic_calls_per_asset,
                      y_density_per_ha |-> usable[i].drone_density_per_hectare]]
    IN  IF rows = <<>>
        THEN [window_count |-> 0,
              message |-> "No calibration windows available. Rebuild windows first."]
        ELSE IF ratios = <<>>
        THEN [window_count |-> Len(rows), usable_count |-> 0,
              message |-> "No windows with positive acoustic call rate to calibrate."]
        ELSE [window_count |-> Len(rows), usable_count |-> Len(ratios),
              simple_factor_density_per_call_per_asset |-> median(ratios),
              sample_pairs |-> SubSeq(pairs, 1, Min(50, Len(pairs)))]

\* A curve summary that consumes the windows it has read.
CurveSummaryConsuming(min_calls) ==
    /\ call = no_call
    /\ call' = [kind |-> "curve", pc |-> "done", min_calls |-> min_calls,
                table |-> CalibrationWindow,
                out |-> calibration_curve_summary(CalibrationWindow, min_calls)]
    /\ CalibrationWindow' = CalibrationWindow \ select_windows(CalibrationWindow, min_calls)
    /\ UNCHANGED <<source, nextId, sess, ret, hist, calls>>

\* calibration_curve_summary: one SELECT, lines 254-287
CurveSummary(min_calls) ==
    /\ call = no_call
    /\ call' = [kind |-> "curve", pc |-> "done", min_calls |-> min_calls,
                table |-> CalibrationWindow,
                out |-> calibration_curve_summary(CalibrationWindow, min_calls)]
    /\ UNCHANGED <<source, CalibrationWindow, nextId, sess, ret, hist, calls>>

(***************************************************************************)
(* Backtester                                                              *)
(***************************************************************************)
\* A refusal that looks at the number of rows alone.
backtest_refusal_rows_only(n_rows, n_groups) ==
    IF n_rows < 3
    THEN Some("Not enough windows for grouped backtest (need >= 3).")
    ELSE None

\* lines 456-471: the message of a refused backtest, or None
backtest_refusal(n_rows, n_groups) ==
    IF n_rows < 3
    THEN Some("Not enough windows for grouped backtest (need >= 3).")
    ELSE IF n_groups < 2
    THEN Some("Need at least 2 drone surveys for grouped backtest.")
    ELSE None

\* A recommendation that gives a tie to the quadratic model.
recommended_model_not_worse(quadratic_overall, linear_overall) ==
    IF quadratic_overall.rmse <= linear_overall.rmse THEN "quadratic" ELSE "linear"

\* lines 521-523: the recommendation of calibration_backtest_report
recommended_model_backtest(quadratic_overall, linear_overall) ==
    IF quadratic_overall.rmse < linear_overall.rmse THEN "quadratic" ELSE "linear"

\* A fold that fits on every row, the held-out ones included.
backtest_fold_in_sample(rows, feature_names, g) ==
    LET train_rows == rows
        test_rows == SelectSeq(rows, LAMBDA r : r.visual_survey_id = g)
        train == _matrix_from_rows(train_rows, feature_names)
        test == _matrix_from_rows(test_rows, feature_names)
        linear_model == _fit_linear_model(train.X, train.y)
        quad_model == _fit_quadratic_total_call_model(train.X, train.y)
        yhat_linear == _predict_linear(linear_model, test.X)
        yhat_quad == _predict_quadratic_total_call(quad_model, test.X)
    IN  IF train_rows = <<>> \/ test_rows = <<>>
        THEN [skipped |-> TRUE]
        ELSE [skipped |-> FALSE,
              train_ids |-> [i \in 1..Len(train_rows) |-> train_rows[i].window_id],
              test_ids |-> [i \in 1..Len(test_rows) |-> test_rows[i].window_id],
              y_test |-> test.y,
              yhat_linear |-> yhat_linear,
              yhat_quad |-> yhat_quad,
              fold |-> [held_out_visual_survey_id |-> g,
                        train_windows |-> Len(train_rows),
                        test_windows |-> Len(test_rows),
                        linear_metrics |-> _metrics(test.y, yhat_linear),
                        quadratic_metrics |-> _metrics(test.y, yhat_quad)]]

\* lines 480-510: the fold that holds out drone survey g
backtest_fold(rows, feature_names, g) ==
    LET train_rows == SelectSeq(rows, LAMBDA r : r.visual_survey_id # g)
        test_rows == SelectSeq(rows, LAMBDA r : r.visual_survey_id = g)
        train == _matrix_from_rows(train_rows, feature_names)
        test == _matrix_from_rows(test_rows, feature_names)
        linear_model == _fit_linear_model(train.X, train.y)
        quad_model == _fit_quadratic_total_call_model(train.X, train.y)
        yhat_linear == _predict_linear(linear_model, test.X)
        yhat_quad == _predict_quadratic_total_call(quad_model, test.X)
    IN  IF train_rows = <<>> \/ test_rows = <<>>
        THEN [skipped |-> TRUE]
        ELSE [skipped |-> FALSE,
              train_ids |-> [i \in 1..Len(train_rows) |-> train_rows[i].window_id],
              test_ids |-> [i \in 1..Len(test_rows) |-> test_rows[i].window_id],
              y_test |-> test.y,
              yhat_linear |-> yhat_linear,
              yhat_quad |-> yhat_quad,
              fold |-> [held_out_visual_survey_id |-> g,
                        train_windows |-> Len(train_rows),
                        test_windows |-> Len(test_rows),
                        linear_metrics |-> _metrics(test.y, yhat_linear),
                        quadratic_metrics |-> _metrics(test.y, yhat_quad)]]

RECURSIVE Flatten(_)
Flatten(qs) == IF qs = <<>> THEN <<>> ELSE Head(qs) \o Flatten(Tail(qs))

\* line 464: groups = sorted(set(r["visual_survey_id"] for r in rows))
backtest_groups(rows) == SortedSeq({rows[i].visual_survey_id : i \in 1..Len(rows)})

\* lines 479-510: the folds the loop runs, in the order of the groups
backtest_folds(data) ==
    LET groups == backtest_groups(data.rows)
    IN  SelectSeq([k \in 1..Len(groups) |->
                      backtest_fold(data.rows, data.feature_names, groups[k])],
                  LAMBDA e : ~ e.skipped)

\* lines 497-500: the pooled out-of-fold values after the loop
backtest_pooled(evals) ==
    [agg_true |-> Flatten([k \in 1..Len(evals) |-> evals[k].y_test]),
     agg_pred_linear |-> Flatten([k \in 1..Len(evals) |-> evals[k].yhat_linear]),
     agg_pred_quad |-> Flatten([k \in 1..Len(evals) |-> evals[k].yhat_quad])]

\* lines 455-535: the report, of the data that line 451 has built
backtest_report_of(data) ==
    LET rows == data.rows
        groups == backtest_groups(rows)
        refusal == backtest_refusal(Len(rows), Len(groups))
        evals == backtest_folds(data)
        agg == backtest_pooled(evals)
        linear_overall == _metrics(agg.agg_true, agg.agg_pred_linear)
        quadratic_overall == _metrics(agg.agg_true, agg.agg_pred_quad)
    IN  IF refusal # None
        THEN [window_count |-> Len(rows), message |-> Val(refusal),
              feature_names |-> data.feature_names, folds |-> <<>>]
        ELSE [window_count |-> Len(rows),
              feature_names |-> data.feature_names,
              species_features |-> data.species_features,
              folds |-> [k \in 1..Len(evals) |-> evals[k].fold],
              overall |-> [linear |-> linear_overall,
                           quadratic |-> quadratic_overall,
                           recommended_model |->
                               recommended_model_backtest(quadratic_overall,
                                                          linear_overall)]]

\* lines 451-535, on the table the call reads
calibration_backtest_report(table, min_calls, top_species) ==
    backtest_report_of(build_calibration_feature_rows(table, min_calls, top_species))

(***************************************************************************)
(* Predictor                                                               *)
(***************************************************************************)
\* The value as it is, without the max.
keep_density(v) == v

\* max(0.0, v)
clamp_density(v) == Max(0, v)

\* lines 592-640, after the training of line 586: data is what the second
\* build_calibration_feature_rows returns.  Densities of the result are in
\* hundredths.
predict_from(train, data, acoustic_survey_id, aru_id, model) ==
    LET feature_names == data.feature_names
        species == data.species_features
        measured == _window_effort_hours(acoustic_survey_id, aru_id)
        effort_h == IF measured <= 0 THEN 300 ELSE measured
        counts == _window_species_counts(acoustic_survey_id, aru_id)
        total_calls == SeqSum([i \in 1..Len(counts) |-> counts[i].count])
        assets == Cardinality(assets_of(acoustic_survey_id, aru_id))
        calls_per_asset == IF assets # 0 THEN total_calls \div assets ELSE 0
        feat == feature_dict((total_calls * 3600) \div effort_h, calls_per_asset,
                             species, counts, effort_h)
        X == <<feature_vector(feat, feature_names)>>
        model_name == IF model = "best" THEN train.recommended_model ELSE model
        model_used == IF model_name = "quadratic" THEN "quadratic" ELSE "linear"
        \* [0] of an empty array raises IndexError; X.dot(coef) of unequal
        \* lengths raises ValueError
        raises == \/ is_empty(X)
                  \/ model_used = "linear" /\ Len(X[1]) # Len(train.linear_model.coef)
        pred == IF model_used = "quadratic"
                THEN _predict_quadratic_total_call(train.quadratic_model, X)[1]
                ELSE _predict_linear(train.linear_model, X)[1]
        resid_std == train.residual_std_density_per_hectare
    IN  IF raises
        THEN [raised |-> TRUE, feature_names |-> feature_names, species |-> species,
              X |-> X]
        ELSE [raised |-> FALSE, feature_names |-> feature_names, species |-> species,
              X |-> X, pred |-> pred, resid_std |-> resid_std,
              result |->
                [acoustic_survey_id |-> acoustic_survey_id,
                 aru_id |-> aru_id,
                 model_used |-> model_used,
                 estimated_density_per_hectare |-> clamp_density(pred * 100),
                 prediction_interval_approx |->
                    [low |-> clamp_density(pred * 100 - (196 * resid_std) \div 100),
                     high |-> clamp_density(pred * 100 + (196 * resid_std) \div 100)],
                 features |-> feat,
                 effort_hours_estimated |-> effort_h,
                 training_window_count |-> train.window_count]]

\* The (acoustic_survey_id, aru_id) pairs a prediction is asked for, and the
\* values of its model argument.
Targets == {<<1, 1>>, <<2, 2>>}
ModelSelectors == {"best", "linear", "quadratic"}

\* calibration_predict_density, line 586: calibration_train_summary reads the
\* window table and fits; with no window the call returns at line 590.
PredictTrain(min_calls, top_species) ==
    /\ call = no_call
    /\ \E train \in {calibration_train_summary(CalibrationWindow, min_calls, top_species)} :
         \E target \in Targets, model \in ModelSelectors :
             call' = [kind |-> "predict",
                      pc |-> IF train.window_count = 0 THEN "done" ELSE "trained",
                      acoustic_survey_id |-> target[1], aru_id |-> target[2],
                      model |-> model, min_calls |-> min_calls,
                      top_species |-> top_species,
                      train |-> train,
                      train_table |-> CalibrationWindow,
                      out |-> IF train.window_count = 0
                              THEN [raised |-> FALSE, message |->
                                      "No calibration windows available for prediction."]
                              ELSE [raised |-> FALSE]]
    /\ UNCHANGED <<source, CalibrationWindow, nextId, sess, ret, hist, calls>>

\* calibration_predict_density, lines 592-640: build_calibration_feature_rows
\* reads the window table again; the call returns or raises.
PredictFinish ==
    /\ call.kind = "predict" /\ call.pc = "trained"
    /\ call' = [call EXCEPT
                  !.pc = "done",
                  !.out = predict_from(call.train,
                              build_calibration_feature_rows(CalibrationWindow,
                                  call.min_calls, call.top_species),
                              call.acoustic_survey_id, call.aru_id, call.model)]
    /\ UNCHANGED <<source, CalibrationWindow, nextId, sess, ret, hist, calls>>

\* calibration_backtest_report: one read of the window table, lines 451-535
Backtest(min_calls, top_species) ==
    /\ call = no_call
    /\ call' = [kind |-> "backtest", pc |-> "done", min_calls |-> min_calls,
                top_species |-> top_species, table |-> CalibrationWindow,
                out |-> calibration_backtest_report(CalibrationWindow, min_calls,
                                                    top_species)]
    /\ UNCHANGED <<source, CalibrationWindow, nextId, sess, ret, hist, calls>>

\* build_calibration_feature_rows called on its own: SELECTs only, lines 349-390
FeatureRows(min_calls, top_species) ==
    /\ call = no_call
    /\ call' = [kind |-> "features", pc |-> "done", min_calls |-> min_calls,
                top_species |-> top_species, table |-> CalibrationWindow,
                out |-> build_calibration_feature_rows(CalibrationWindow, min_calls,
                                                       top_species)]
    /\ UNCHANGED <<source, CalibrationWindow, nextId, sess, ret, hist, calls>>

\* calibration_train_summary called on its own: one read of the window table,
\* lines 543-575
TrainSummary(min_calls, top_species) ==
    /\ call = no_call
    /\ call' = [kind |-> "train", pc |-> "done", min_calls |-> min_calls,
                top_species |-> top_species, table |-> CalibrationWindow,
                out |-> calibration_train_summary(CalibrationWindow, min_calls,
                                                  top_species)]
    /\ UNCHANGED <<source, CalibrationWindow, nextId, sess, ret, hist, calls>>

\* The caller has the result of the reader call.
ReaderReturn ==
    /\ call # no_call /\ call.pc = "done"
    /\ call' = no_call
    /\ UNCHANGED <<source, CalibrationWindow, nextId, sess, ret, hist, calls>>

(***************************************************************************)
(* Source data of the model                                                *)
(***************************************************************************)
\* A position k thousandths of a degree north (east) of the region's corner.
LatAt(region, k) == region * 1000000 + k * 1000
LonAt(k) == 20 * 1000000 + k * 1000

no_box == [lat_tl |-> None, lat_br |-> None, lon_tl |-> None, lon_br |-> None]
box(region, lat_hi, lat_lo, lon_lo, lon_hi) ==
    [lat_tl |-> Some(LatAt(region, lat_hi)), lat_br |-> Some(LatAt(region, lat_lo)),
     lon_tl |-> Some(LonAt(lon_lo)), lon_br |-> Some(LonAt(lon_hi))]

\* The bounding box of drone survey 3's image: absent, a line, or a rectangle.
Box3(region, kind) ==
    CASE kind = "none" -> no_box
      [] kind = "line" -> box(region, 1, 1, 0, 2)
      [] kind = "box"  -> box(region, 2, 0, 0, 2)

asset(survey_id, aru_id, b) == [survey_id |-> survey_id, aru_id |-> aru_id] @@ b

det(class_name, end_time) == [class_name |-> class_name, end_time |-> end_time]

\* Detections of one recording: class names and end times (seconds).
DetTemplate(k) ==
    CASE k = 0 -> <<>>
      [] k = 1 -> <<det("Asian Openbill", 1800)>>
      [] k = 2 -> <<det("Asian Openbill", 1800), det("Painted Stork", 3600)>>
      [] k = 3 -> <<det("asian-openbill", 900), det("Painted Stork", 1800),
                    det("Painted Stork", 2700), det("Painted Stork", 3600)>>

on_asset(a, ds) == [i \in 1..Len(ds) |-> [asset_id |-> a] @@ ds[i]]

\* Two acoustic surveys (1, 2) and two drone surveys (3, 4).  Survey 1 has two
\* recordings of ARU 1 and one recording of no ARU; survey 2 has one recording
\* of ARU 2 and one of ARU 1.  Each drone survey has one image.
World(w) ==
    /\ Survey = [i \in 1..4 |->
                    CASE i = 1 -> [type |-> "acoustic", date |-> Some(21)]
                      [] i = 2 -> [type |-> "acoustic", date |-> w.date2]
                      [] i = 3 -> [type |-> "drone", date |-> w.date3]
                      [] i = 4 -> [type |-> "drone", date |-> Some(20)]]
    /\ MediaAsset = [i \in 1..7 |->
                    CASE i = 1 -> asset(1, Some(1), no_box)
                      [] i = 2 -> asset(1, None, no_box)
                      [] i = 3 -> asset(2, Some(2), no_box)
                      [] i = 4 -> asset(3, None, Box3(w.region, w.box3))
                      [] i = 5 -> asset(4, None, box(w.region, 2, 0, 0, 1))
                      [] i = 6 -> asset(1, Some(1), no_box)
                      [] i = 7 -> asset(2, Some(1), no_box)]
    /\ ARU = [i \in (IF w.aru2 THEN {1, 2} ELSE {1}) |->
                    IF i = 1 THEN [lat |-> LatAt(w.region, w.aru1[1]),
                                   lon |-> LonAt(w.aru1[2])]
                    ELSE [lat |-> LatAt(w.region, 1), lon |-> LonAt(3)]]
    /\ AcousticDetection = on_asset(1, DetTemplate(w.dets1))
                              \o on_asset(3, DetTemplate(w.dets2))
                              \o on_asset(7, DetTemplate(w.dets3))
    /\ VisualDetection = [i \in 1..(w.vis3 + w.vis4) |->
                              [asset_id |-> IF i <= w.vis3 THEN 4 ELSE 5]]

Params == [max_days_apart : {0, 14}, buffer_meters : {0, 150},
           min_acoustic_calls : {1, 2}]

InitStore ==
    /\ CalibrationWindow = {}
    /\ nextId = 1
    /\ sess = [s \in Sessions |-> idle_session]
    /\ ret = [s \in Sessions |-> no_return]
    /\ hist = <<>>
    /\ calls = 0
    /\ call = no_call

(***************************************************************************)
(* SpecRebuild: rebuild calls of one session, one after the other, over    *)
(* the widest family of source data.                                       *)
(***************************************************************************)
WorldsRebuild ==
    [region : {10, 85}, date2 : {Some(21)}, date3 : {None, Some(22), Some(60)},
     box3 : {"none", "line", "box"}, aru1 : {<<1, 1>>, <<3, 1>>, <<1, 4>>},
     aru2 : BOOLEAN, dets1 : {0, 2}, dets2 : {1}, dets3 : {0}, vis3 : {20}, vis4 : {3}]

InitRebuild ==
    /\ \E w \in WorldsRebuild : World(w)
    /\ InitStore

NextRebuild ==
    \/ \E p \in Params : RebuildDelete(1, p)
    \/ RebuildCommitDelete(1)
    \/ RebuildLoop(1)
    \/ RebuildCommit(1)

SpecRebuild == InitRebuild /\ [][NextRebuild]_vars

(***************************************************************************)
(* Statements about the source data, in the terms of the specification     *)
(***************************************************************************)
\* A window row without its primary key.
Fields(w) == [f \in (DOMAIN w) \ {"id"} |-> w[f]]

\* How many rows of the table carry each combination of field values.
FieldBag(table) ==
    [r \in {Fields(w) : w \in table} |-> Cardinality({w \in table : Fields(w) = r})]

Last(h) == h[Len(h)]

AcousticSurveys == {s \in DOMAIN Survey : Survey[s].type = "acoustic"}
DroneSurveys == {s \in DOMAIN Survey : Survey[s].type = "drone"}

\* The (acoustic survey, ARU id) pairs: an asset of the survey names the ARU.
AcousticPairs ==
    {<<MediaAsset[a].survey_id, Val(MediaAsset[a].aru_id)>> :
        a \in {b \in DOMAIN MediaAsset :
                  /\ MediaAsset[b].survey_id \in AcousticSurveys
                  /\ MediaAsset[b].aru_id # None}}

CallsOf(pair) ==
    Cardinality({d \in DOMAIN AcousticDetection :
        /\ MediaAsset[AcousticDetection[d].asset_id].survey_id = pair[1]
        /\ MediaAsset[AcousticDetection[d].asset_id].aru_id = Some(pair[2])})

\* The pairs that reach the drone loop.
LivePairs(p) ==
    {pair \in AcousticPairs :
        pair[2] \in DOMAIN ARU /\ CallsOf(pair) >= p.min_acoustic_calls}

\* The images of a drone survey with all four corner coordinates.
CornerAssets(d) ==
    {a \in DOMAIN MediaAsset :
        /\ MediaAsset[a].survey_id = d
        /\ MediaAsset[a].lat_tl # None /\ MediaAsset[a].lat_br # None
        /\ MediaAsset[a].lon_tl # None /\ MediaAsset[a].lon_br # None}
CornerLats(d) == UNION {{Val(MediaAsset[a].lat_tl), Val(MediaAsset[a].lat_br)} :
                            a \in CornerAssets(d)}
CornerLons(d) == UNION {{Val(MediaAsset[a].lon_tl), Val(MediaAsset[a].lon_br)} :
                            a \in CornerAssets(d)}

CalendarDay(dt) == dt \div 2
DatesKnown(a, d) == Survey[a].date # None /\ Survey[d].date # None
WholeDaysBetween(a, d) ==
    IF CalendarDay(Val(Survey[d].date)) >= CalendarDay(Val(Survey[a].date))
    THEN CalendarDay(Val(Survey[d].date)) - CalendarDay(Val(Survey[a].date))
    ELSE CalendarDay(Val(Survey[a].date)) - CalendarDay(Val(Survey[d].date))

\* The ARU point lies in the drone survey's bounding box grown by the buffer
\* on every side, the boundary included.
InBufferedBox(u, d, buffer_meters) ==
    /\ \E c \in CornerLats(d) : c - _meters_to_lat_degrees(buffer_meters) <= ARU[u].lat
    /\ \E c \in CornerLats(d) : ARU[u].lat <= c + _meters_to_lat_degrees(buffer_meters)
    /\ \E c \in CornerLons(d) :
            c - _meters_to_lon_degrees(buffer_meters, ARU[u].lat) <= ARU[u].lon
    /\ \E c \in CornerLons(d) :
            ARU[u].lon <= c + _meters_to_lon_degrees(buffer_meters, ARU[u].lat)

\* The bounding box has an extent in both directions.
ProperBox(d) ==
    /\ \E c1, c2 \in CornerLats(d) : c1 < c2
    /\ \E c1, c2 \in CornerLons(d) : c1 < c2

\* Why a candidate (pair, drone survey) gives no window: the first check it fails.
RejectedNoDate(pair, d, p) == ~ DatesKnown(pair[1], d)
RejectedTooFar(pair, d, p) ==
    DatesKnown(pair[1], d) /\ WholeDaysBetween(pair[1], d) > p.max_days_apart
InTime(pair, d, p) ==
    DatesKnown(pair[1], d) /\ WholeDaysBetween(pair[1], d) <= p.max_days_apart
RejectedNoBounds(pair, d, p) == InTime(pair, d, p) /\ CornerAssets(d) = {}
RejectedOutside(pair, d, p) ==
    /\ InTime(pair, d, p) /\ CornerAssets(d) # {}
    /\ ~ InBufferedBox(pair[2], d, p.buffer_meters)
RejectedNoArea(pair, d, p) ==
    /\ InTime(pair, d, p) /\ CornerAssets(d) # {}
    /\ InBufferedBox(pair[2], d, p.buffer_meters)
    /\ ~ ProperBox(d)

Candidates(p) == LivePairs(p) \X DroneSurveys

\* The failures the claim lists: missing ARU record, too few calls, missing
\* bounds, non-positive area.
ListedFailures(p) ==
    Cardinality({pair \in AcousticPairs : pair[2] \notin DOMAIN ARU})
    + Cardinality({pair \in AcousticPairs :
                      pair[2] \in DOMAIN ARU /\ CallsOf(pair) < p.min_acoustic_calls})
    + Cardinality({c \in Candidates(p) :
                      RejectedNoBounds(c[1], c[2], p) \/ RejectedNoArea(c[1], c[2], p)})

MissingDateFailures(p) ==
    Cardinality({c \in Candidates(p) : RejectedNoDate(c[1], c[2], p)})

HasWindow(table, pair, d) ==
    \E w \in table : /\ w.acoustic_survey_id = pair[1] /\ w.aru_id = pair[2]
                     /\ w.visual_survey_id = d

\* A rebuild call has just returned normally (SpecRebuild: nothing else runs).
JustRebuilt == hist # <<>> /\ \A s \in Sessions : sess[s].pc = "idle"

(***************************************************************************)
(* C4.  Rebuild idempotence: over unchanged source data and with the same  *)
(* parameters, two rebuild calls in sequence leave the same window set     *)
(* (the same number of windows, the same field values, window ids aside)   *)
(* and return the same created_windows and skipped_candidates.             *)
(***************************************************************************)
C4_RebuildIdempotent ==
    \A i \in 1..(Len(hist) - 1) :
        hist[i].p = hist[i + 1].p =>
            /\ Cardinality(hist[i + 1].table) = Cardinality(hist[i].table)
            /\ FieldBag(hist[i + 1].table) = FieldBag(hist[i].table)
            /\ hist[i + 1].created_windows = hist[i].created_windows
            /\ hist[i + 1].skipped_candidates = hist[i].skipped_candidates

\* The second of two equal rebuilds has replaced two or more windows by new rows.
C4_Witness ==
    /\ Len(hist) >= 2
    /\ hist[1].p = hist[2].p
    /\ hist[2].created_windows >= 2
    /\ hist[2].skipped_candidates >= 1
    /\ hist[2].before = hist[1].table
    /\ hist[2].table \cap hist[1].table = {}

(***************************************************************************)
(* C5.  Right after a successful rebuild, every window of the store has    *)
(* days_apart equal to the whole days between the two survey dates and at  *)
(* most max_days_apart, its ARU point inside the drone survey's bounding   *)
(* box grown by buffer_meters (boundary included), a positive drone area   *)
(* (the box is not degenerate) and at least min_acoustic_calls calls.      *)
(***************************************************************************)
C5_WindowInvariants ==
    JustRebuilt =>
        \A w \in CalibrationWindow :
            /\ w.acoustic_survey_id \in AcousticSurveys
            /\ w.visual_survey_id \in DroneSurveys
            /\ DatesKnown(w.acoustic_survey_id, w.visual_survey_id)
            /\ w.days_apart = WholeDaysBetween(w.acoustic_survey_id, w.visual_survey_id)
            /\ w.days_apart <= Last(hist).p.max_days_apart
            /\ w.aru_id \in DOMAIN ARU
            /\ InBufferedBox(w.aru_id, w.visual_survey_id, Last(hist).p.buffer_meters)
            /\ w.drone_area_hectares > 0
            /\ ProperBox(w.visual_survey_id)
            /\ w.acoustic_call_count = CallsOf(<<w.acoustic_survey_id, w.aru_id>>)
            /\ w.acoustic_call_count >= Last(hist).p.min_acoustic_calls

\* A rebuild has kept a window one day apart whose ARU is only in the box
\* because of the buffer, and has left out a drone survey for a reason of C5.
C5_Witness ==
    /\ JustRebuilt
    /\ \E w \in CalibrationWindow :
          /\ w.days_apart = 1
          /\ ~ InBufferedBox(w.aru_id, w.visual_survey_id, 0)
    /\ \E c \in Candidates(Last(hist).p) :
          /\ RejectedTooFar(c[1], c[2], Last(hist).p)
              \/ RejectedOutside(c[1], c[2], Last(hist).p)
              \/ RejectedNoArea(c[1], c[2], Last(hist).p)
          /\ ~ HasWindow(CalibrationWindow, c[1], c[2])

(***************************************************************************)
(* C6.  skipped_candidates counts the failures.  As claimed: only a        *)
(* missing ARU record, too few calls, missing bounds and non-positive      *)
(* area.  As amended: those and a candidate one of whose surveys has no    *)
(* date.  Either way a drone survey too far in time or whose box does not  *)
(* hold the ARU gives no window and is not counted.                        *)
(***************************************************************************)
\* The claim as stated, of the rebuild that has just returned.
C6_SkippedAsClaimed ==
    JustRebuilt =>
        Last(hist).skipped_candidates = ListedFailures(Last(hist).p)

\* The claim as amended, of the rebuild that has just returned.
C6_SkippedCounts ==
    JustRebuilt =>
        LET h == Last(hist)
        IN  /\ h.skipped_candidates = ListedFailures(h.p) + MissingDateFailures(h.p)
            /\ \A c \in Candidates(h.p) :
                  (RejectedTooFar(c[1], c[2], h.p) \/ RejectedOutside(c[1], c[2], h.p))
                  => ~ HasWindow(h.table \ h.before, c[1], c[2])

\* A rebuild has counted a missing ARU record and a candidate without a date,
\* and has passed over a drone survey whose box does not hold the ARU.
C6_Witness ==
    /\ hist # <<>>
    /\ Last(hist).skipped_candidates >= 2
    /\ \E pair \in AcousticPairs : pair[2] \notin DOMAIN ARU
    /\ MissingDateFailures(Last(hist).p) >= 1
    /\ \E c \in Candidates(Last(hist).p) : RejectedOutside(c[1], c[2], Last(hist).p)

(***************************************************************************)
(* Spec: two sessions that rebuild, each statement a step, any statement   *)
(* of a call may raise; a reader lists the windows at any time.            *)
(***************************************************************************)
WorldsSpec ==
    [region : {10}, date2 : {Some(21)}, date3 : {Some(22)},
     box3 : {"line", "box"}, aru1 : {<<1, 1>>, <<1, 4>>},
     aru2 : {TRUE}, dets1 : {1, 2}, dets2 : {1}, dets3 : {0}, vis3 : {20}, vis4 : {3}]

ParamsSpec == [max_days_apart : {0, 14}, buffer_meters : {150},
               min_acoustic_calls : {1}]

Init ==
    /\ \E w \in WorldsSpec : World(w)
    /\ InitStore

Next ==
    \/ \E s \in Sessions, p \in ParamsSpec : RebuildDelete(s, p)
    \/ \E s \in Sessions : RebuildCommitDelete(s)
    \/ \E s \in Sessions : RebuildLoop(s)
    \/ \E s \in Sessions : RebuildCommit(s)
    \/ \E s \in Sessions : RebuildRaise(s)
    \/ \E min_calls \in {0, 2}, limit \in {1, 200} : ListWindows(min_calls, limit)
    \/ ReaderReturn

Spec == Init /\ [][Next]_vars

\* The rows a rebuild with parameters p adds when it runs alone.
RowsOfRebuild(p) == rebuild_enumerate(p).rows
BagOfRows(rows) ==
    [r \in {rows[i] : i \in 1..Len(rows)} |->
        Cardinality({i \in 1..Len(rows) : rows[i] = r})]

(***************************************************************************)
(* C1.  A rebuild call that fails after it has started leaves in the       *)
(* store exactly the window set that was there when it began.  (Stated     *)
(* for a call during which no other rebuild call runs.)                    *)
(***************************************************************************)
C1_FailedRebuildKeepsWindows ==
    \A i \in 1..Len(hist) :
        (hist[i].created_windows < 0 /\ ~ hist[i].overlapped)
            => hist[i].table = hist[i].before

(***************************************************************************)
(* C2.  A reader that runs during one rebuild call sees the window set of  *)
(* before the rebuild or the complete set of after it, never another set.  *)
(* (Stated for list_calibration_windows with a limit above the table size, *)
(* during a rebuild call that no other rebuild call overlaps.)             *)
(***************************************************************************)
C2_ReaderSeesWholeSet ==
    (/\ call.kind = "list"
     /\ call.limit = 200
     /\ Cardinality(DOMAIN call.during) = 1
     /\ \A s \in DOMAIN call.during : ~ call.during[s].overlap)
    => \A s \in DOMAIN call.during :
          LET seen == {Fields(call.data[i]) : i \in 1..Len(call.data)}
              old == {Fields(w) : w \in select_windows(call.during[s].before,
                                                        call.min_calls)}
              new == {r \in DOMAIN BagOfRows(RowsOfRebuild(call.during[s].p)) :
                          r.acoustic_call_count >= call.min_calls}
          IN  seen = old \/ seen = new

(***************************************************************************)
(* C3.  When two rebuild calls with the same parameters have run           *)
(* concurrently over unchanged source data and both have returned, the     *)
(* committed window set is what one of them leaves when it runs alone: no  *)
(* (acoustic survey, ARU, drone survey) triple is in two windows and no    *)
(* window is missing.                                                      *)
(***************************************************************************)
Triple(w) == <<w.acoustic_survey_id, w.aru_id, w.visual_survey_id>>

C3_ConcurrentRebuildsAsOne ==
    (/\ Len(hist) >= 2
     /\ \A s \in Sessions : sess[s].pc = "idle"
     /\ Last(hist).created_windows >= 0 /\ Last(hist).overlapped
     /\ hist[Len(hist) - 1].created_windows >= 0 /\ hist[Len(hist) - 1].overlapped
     /\ hist[Len(hist) - 1].p = Last(hist).p)
    => /\ \A w, v \in CalibrationWindow : Triple(w) = Triple(v) => w = v
       /\ FieldBag(CalibrationWindow) = BagOfRows(RowsOfRebuild(Last(hist).p))

(***************************************************************************)
(* SpecPredict: one session rebuilds while predictions and backtests run.  *)
(***************************************************************************)
WorldsPredict ==
    [region : {10, 85}, date2 : {Some(21)}, date3 : {Some(22)},
     box3 : {"box"}, aru1 : {<<1, 1>>}, aru2 : {TRUE},
     dets1 : {2}, dets2 : {1}, dets3 : {3}, vis3 : {20}, vis4 : {3, 10}]
    \cup
    [region : {10, 85}, date2 : {Some(21)}, date3 : {Some(22)},
     box3 : {"box"}, aru1 : {<<1, 1>>}, aru2 : {TRUE},
     dets1 : {1}, dets2 : {3}, dets3 : {1}, vis3 : {20}, vis4 : {3, 10}]

ParamsPredict == [max_days_apart : {0, 14}, buffer_meters : {150},
                  min_acoustic_calls : {1}]

InitPredict ==
    /\ \E w \in WorldsPredict : World(w)
    /\ InitStore

NextPredict ==
    \/ \E p \in ParamsPredict : RebuildDelete(1, p)
    \/ RebuildCommitDelete(1)
    \/ RebuildLoop(1)
    \/ RebuildCommit(1)
    \/ \E top_species \in {1, 2} : PredictTrain(1, top_species)
    \/ PredictFinish
    \/ \E top_species \in {1, 2} : Backtest(1, top_species)
    \/ ReaderReturn

SpecPredict == InitPredict /\ [][NextPredict]_vars

(***************************************************************************)
(* Predictions and backtests, as their caller sees them                    *)
(***************************************************************************)
PredictDone == call.kind = "predict" /\ call.pc = "done"

\* The call returned an estimate: neither the no-window message nor a raise.
PredictEstimated == PredictDone /\ "result" \in DOMAIN call.out

\* The feature rows of the window set the call's models were trained on.
TrainData ==
    build_calibration_feature_rows(call.train_table, call.min_calls, call.top_species)

\* The standard deviation (hundredths) of the in-sample residuals that the
\* named model of the call leaves on its training rows.
ResidualStdOf(model_name) ==
    LET m == _matrix_from_rows(TrainData.rows, TrainData.feature_names)
        yhat == IF model_name = "quadratic"
                THEN _predict_quadratic_total_call(call.train.quadratic_model, m.X)
                ELSE _predict_linear(call.train.linear_model, m.X)
    IN  residual_std(residuals_of(yhat, m.y))

\* 1.96 * sigma, in hundredths
HalfWidth(sigma) == (196 * sigma) \div 100

\* C7: the interval of an estimate is [max(0, pred - 1.96 sigma),
\* max(0, pred + 1.96 sigma)] with sigma the standard deviation of the
\* in-sample training residuals of the model named in model_used, whatever
\* the model selector.
C7_IntervalFromModelUsed ==
    PredictEstimated =>
        LET r == call.out.result
            hw == HalfWidth(ResidualStdOf(r.model_used))
        IN  r.prediction_interval_approx =
                [low |-> Max(0, call.out.pred * 100 - hw),
                 high |-> Max(0, call.out.pred * 100 + hw)]

\* C8: a prediction that found windows to train on builds the target's
\* feature vector from the feature names and the species list of the window
\* set its models were trained on, so the vector is as long as the trained
\* linear coefficients, whatever a rebuild commits in between.
C8_OneWindowSet ==
    PredictDone /\ call.train.window_count > 0 =>
        /\ call.out.feature_names = TrainData.feature_names
        /\ call.out.species = TrainData.species_features
        /\ Len(call.out.X[1]) = Len(call.train.linear_model.coef)

\* C9: every result that carries an estimate has estimate, low and high >= 0
\* and low <= estimate <= high.
C9_EstimateWithinNonNegativeInterval ==
    PredictEstimated =>
        LET r == call.out.result
            est == r.estimated_density_per_hectare
            low == r.prediction_interval_approx.low
            high == r.prediction_interval_approx.high
        IN  est >= 0 /\ low >= 0 /\ high >= 0 /\ low <= est /\ est <= high

\* An estimate whose raw model output is negative, from a model fitted to
\* two windows and asked about a recorder outside them.
C9_Witness ==
    /\ PredictEstimated
    /\ call.out.pred < 0
    /\ call.out.result.estimated_density_per_hectare = 0
    /\ call.out.result.prediction_interval_approx.high >= 0

BacktestDone == call.kind = "backtest" /\ call.pc = "done"

\* The windows the backtest has read, and their drone surveys.
BacktestWindows == select_windows(call.table, call.min_calls)
BacktestGroups == {w.visual_survey_id : w \in BacktestWindows}
EnoughForFolds ==
    Cardinality(BacktestWindows) >= 3 /\ Cardinality(BacktestGroups) >= 2

\* C10: a backtest has folds only with at least 3 feature rows in at least
\* 2 drone-survey groups; otherwise its result is a message, the window
\* count and no fold, without an overall section.
C10_BacktestNeedsRowsAndGroups ==
    BacktestDone =>
        /\ call.out.folds # <<>> => EnoughForFolds
        /\ ~ EnoughForFolds =>
              /\ "message" \in DOMAIN call.out
              /\ call.out.window_count = Cardinality(BacktestWindows)
              /\ call.out.folds = <<>>
              /\ "overall" \notin DOMAIN call.out

\* A backtest refused for its single drone survey, though it has 3 rows.
C10_Witness ==
    /\ BacktestDone
    /\ Cardinality(BacktestWindows) >= 3
    /\ Cardinality(BacktestGroups) = 1
    /\ call.out.folds = <<>>
    /\ "message" \in DOMAIN call.out

(***************************************************************************)
(* The recommended model                                                   *)
(***************************************************************************)
\* The backtest ran folds and reports the pooled metrics.
BacktestRan == BacktestDone /\ "overall" \in DOMAIN call.out

\* The prediction trained its two models.
PredictTrained == PredictDone /\ call.train.window_count > 0

\* The in-sample RMSE (hundredths) of the named model of the call on the
\* rows it was trained on.
InSampleRmse(model_name) ==
    LET m == _matrix_from_rows(TrainData.rows, TrainData.feature_names)
        yhat == IF model_name = "quadratic"
                THEN _predict_quadratic_total_call(call.train.quadratic_model, m.X)
                ELSE _predict_linear(call.train.linear_model, m.X)
    IN  _metrics(m.y, yhat).rmse

\* "quadratic" when its RMSE is strictly the lower one, "linear" otherwise.
StrictlyBetter(quadratic_rmse, linear_rmse) ==
    IF quadratic_rmse < linear_rmse THEN "quadratic" ELSE "linear"

\* C11: the recommended model is "quadratic" if and only if the quadratic
\* RMSE is strictly less than the linear RMSE and "linear" otherwise, a tie
\* included: in the backtest on the pooled out-of-fold RMSE, in the train
\* summary on the in-sample RMSE, and model = "best" predicts with the
\* model the train summary recommends.
C11_RecommendedModelRule ==
    /\ BacktestRan =>
          call.out.overall.recommended_model =
              StrictlyBetter(call.out.overall.quadratic.rmse,
                             call.out.overall.linear.rmse)
    /\ PredictTrained =>
          /\ call.train.quadratic_metrics_train.rmse = InSampleRmse("quadratic")
          /\ call.train.linear_metrics_train.rmse = InSampleRmse("linear")
          /\ call.train.recommended_model =
                StrictlyBetter(InSampleRmse("quadratic"), InSampleRmse("linear"))
    /\ PredictEstimated /\ call.model = "best" =>
          call.out.result.model_used =
              StrictlyBetter(InSampleRmse("quadratic"), InSampleRmse("linear"))

\* A backtest whose pooled RMSEs are equal and not zero recommends "linear".
C11_Witness ==
    /\ BacktestRan
    /\ call.out.overall.quadratic.rmse = call.out.overall.linear.rmse
    /\ call.out.overall.linear.rmse > 0
    /\ call.out.overall.recommended_model = "linear"

(***************************************************************************)
(* Readers leave the store alone                                           *)
(***************************************************************************)
\* The rebuild of session 1 and every reader, in any order.
NextReaders ==
    \/ \E p \in ParamsPredict : RebuildDelete(1, p)
    \/ RebuildCommitDelete(1)
    \/ RebuildLoop(1)
    \/ RebuildCommit(1)
    \/ ListWindows(0, 200)
    \/ CurveSummary(1)
    \/ \E top_species \in {1, 2} : FeatureRows(1, top_species)
    \/ \E top_species \in {1, 2} : Backtest(1, top_species)
    \/ \E top_species \in {1, 2} : TrainSummary(1, top_species)
    \/ \E top_species \in {1, 2} : PredictTrain(1, top_species)
    \/ PredictFinish
    \/ ReaderReturn

SpecReaders == InitPredict /\ [][NextReaders]_vars

\* A step of a reader call: it begins, continues or returns.
ReaderStep == call' # call

\* C12: only rebuild_calibration_windows changes the store: every step of
\* list_calibration_windows, calibration_curve_summary,
\* build_calibration_feature_rows, calibration_backtest_report,
\* calibration_train_summary and calibration_predict_density leaves the
\* CalibrationWindow set, its key counter, the uncommitted writes of the
\* sessions and all survey, asset, ARU and detection data unchanged.
C12_ReadersLeaveStoreUnchanged ==
    [][ReaderStep => UNCHANGED <<source, CalibrationWindow, nextId, sess>>]_vars

\* A curve summary has returned over a committed, non-empty window set that
\* is still the one it read, with no rebuild in progress.
C12_Witness ==
    /\ call.kind = "curve" /\ call.pc = "done"
    /\ call.out.window_count > 0
    /\ "simple_factor_density_per_call_per_asset" \in DOMAIN call.out
    /\ CalibrationWindow = call.table
    /\ \A s \in Sessions : sess[s].pc = "idle"

(***************************************************************************)
(* The folds of the backtest                                               *)
(***************************************************************************)
\* The feature rows the backtest of the call built from the table it read.
BacktestData ==
    build_calibration_feature_rows(call.table, call.min_calls, call.top_species)

\* The window ids of the rows whose drone survey is in the set gs.
RowIdsOf(rows, gs) ==
    {rows[i].window_id : i \in {j \in 1..Len(rows) : rows[j].visual_survey_id \in gs}}

\* The elements of a sequence, and whether it has none twice.
Range(q) == {q[i] : i \in 1..Len(q)}
NoRepeat(q) == Cardinality(Range(q)) = Len(q)

\* The fold of drone survey g: its test rows are exactly the rows of g, its
\* train rows exactly the others.
IsFoldOf(e, rows, groups, g) ==
    /\ e.fold.held_out_visual_survey_id = g
    /\ NoRepeat(e.test_ids) /\ NoRepeat(e.train_ids)
    /\ Range(e.test_ids) = RowIdsOf(rows, {g})
    /\ Range(e.train_ids) = RowIdsOf(rows, groups \ {g})
    /\ Range(e.test_ids) \cap Range(e.train_ids) = {}
    /\ Range(e.test_ids) \cup Range(e.train_ids) = RowIdsOf(rows, groups)
    /\ e.fold.test_windows = Len(e.test_ids)
    /\ e.fold.train_windows = Len(e.train_ids)
    /\ Len(e.yhat_linear) = Len(e.test_ids)
    /\ Len(e.yhat_quad) = Len(e.test_ids)

LeaveOneSurveyOut(data, out) ==
    LET rows == data.rows
        groups == {rows[i].visual_survey_id : i \in 1..Len(rows)}
        evals == backtest_folds(data)
        agg == backtest_pooled(evals)
    IN  /\ out.folds = [k \in 1..Len(evals) |-> evals[k].fold]
        /\ Len(out.folds) = Cardinality(groups)
        /\ \A g \in groups :
              Cardinality({k \in 1..Len(evals) :
                  evals[k].fold.held_out_visual_survey_id = g}) = 1
        /\ \A k \in 1..Len(evals) :
              IsFoldOf(evals[k], rows, groups, evals[k].fold.held_out_visual_survey_id)
        /\ \A i \in 1..Len(rows) :
              Cardinality({k \in 1..Len(evals) :
                  rows[i].window_id \in Range(evals[k].test_ids)}) = 1
        /\ Len(agg.agg_pred_linear) = out.window_count
        /\ Len(agg.agg_pred_quad) = out.window_count
        /\ Len(agg.agg_true) = out.window_count
        /\ out.overall.linear = _metrics(agg.agg_true, agg.agg_pred_linear)
        /\ out.overall.quadratic = _metrics(agg.agg_true, agg.agg_pred_quad)

\* C13: when calibration_backtest_report runs folds there is exactly one
\* fold per distinct visual_survey_id among the feature rows; in the fold of
\* group g the test rows are exactly the rows of g and the train rows
\* exactly the rows of the other groups, disjoint and together all rows;
\* every row is a test row in exactly one fold, so each model family has
\* exactly window_count pooled out-of-fold predictions.
C13_LeaveOneDroneSurveyOut ==
    BacktestRan => LeaveOneSurveyOut(BacktestData, call.out)

\* A backtest has run two folds over drone surveys with different numbers
\* of windows.
C13_Witness ==
    /\ BacktestRan
    /\ Len(call.out.folds) = 2
    /\ call.out.folds[1].test_windows # call.out.folds[2].test_windows
    /\ call.out.folds[1].train_windows = call.out.folds[2].test_windows
    /\ call.out.window_count
           = call.out.folds[1].test_windows + call.out.folds[2].test_windows

====
